---- MODULE Spec2Model ----
(***************************************************************************)
(* The LocationCreation job of src/jobs/location_creation.py: parse_csv,   *)
(* find_state_abbr, get_location_type, create_locations and run, against a *)
(* Location / LocationType / Status store.                                 *)
(*                                                                         *)
(* Python strings are sequences of one-character strings, so that len(),   *)
(* upper() and endswith() are computed as the code computes them.          *)
(* Location rows are the elements of the sequence store; a row's primary   *)
(* key is its index, and the parent of a row is a primary key or NoPk.     *)
(***************************************************************************)
EXTENDS Integers, Sequences, FiniteSets, TLC

VARIABLES
    store,                \* Location table: sequence of rows
    locationTypes,        \* names of the LocationType rows in storage
    statuses,             \* names of the Status rows in storage
    data,                 \* data[p]: the **data a job is invoked with
    pc,                   \* pc[p]: position of job p
    runNo,                \* runNo[p]: 1 for the first invocation, 2 for the repeat
    debug,                \* self.debug
    locations,            \* self.locations
    i,                    \* index of the row the for loop is at
    state_location_type,  \* locals of create_locations
    city_location_type,
    active_status_object,
    state_object,
    city,
    log,                  \* log[p]: what the job's logger received
    calls,                \* calls[p]: the get_or_create calls job p issued
    err                   \* err[p]: the exception that ended the job

storage == <<store, locationTypes, statuses>>
setup == <<state_location_type, city_location_type, active_status_object>>
vars == <<store, locationTypes, statuses, data, pc, runNo, debug, locations, i,
          state_location_type, city_location_type, active_status_object,
          state_object, city, log, calls, err>>

----------------------------------------------------------------------------
(* Bounds *)

MaxRows == 2
MaxConcRows == 1

----------------------------------------------------------------------------
(* Values *)

None == "None"
NoPk == 0
NoErr == [kind |-> "none", msg |-> "none", cause |-> "none"]

CA == <<"C", "A">>
TX == <<"T", "X">>
ca == <<"c", "a">>
ZZ == <<"Z", "Z">>
California == <<"C", "a", "l", "i", "f", "o", "r", "n", "i", "a">>
Texas == <<"T", "e", "x", "a", "s">>
Reno == <<"R", "e", "n", "o">>
RenoDC == <<"R", "-", "D", "C">>
RenoBR == <<"R", "-", "B", "R">>

StateValues == {ca, California, TX, ZZ}
CityValues == {Reno, Texas}
NameValues == {RenoDC, RenoBR, Reno}

ConcStateValues == {ca}
ConcCityValues == {Reno, California}
ConcNameValues == {RenoDC, Reno}

Columns == {"state", "city", "name"}
Headers == {Columns} \cup {Columns \ {c} : c \in Columns}

AllLocationTypes == {"State", "City", "Data Center", "Branch"}
AllStatuses == {"Active"}

\* Storage as the job finds it: complete, or with one of the rows it looks up absent.
Configs ==
    {[types |-> AllLocationTypes, statuses |-> AllStatuses]}
    \cup {[types |-> AllLocationTypes \ {t}, statuses |-> AllStatuses] :
            t \in AllLocationTypes}
    \cup {[types |-> AllLocationTypes, statuses |-> {}]}

----------------------------------------------------------------------------
(* Python string methods *)

LowerCase == <<"a", "b", "c", "d", "e", "f", "g", "h", "i", "j", "k", "l", "m",
               "n", "o", "p", "q", "r", "s", "t", "u", "v", "w", "x", "y", "z">>
UpperCase == <<"A", "B", "C", "D", "E", "F", "G", "H", "I", "J", "K", "L", "M",
               "N", "O", "P", "Q", "R", "S", "T", "U", "V", "W", "X", "Y", "Z">>

UpperChar(c) ==
    IF \E k \in DOMAIN LowerCase : LowerCase[k] = c
    THEN UpperCase[CHOOSE k \in DOMAIN LowerCase : LowerCase[k] = c]
    ELSE c

upper(s) == [k \in 1..Len(s) |-> UpperChar(s[k])]

endswith(s, suffix) ==
    /\ Len(s) >= Len(suffix)
    /\ SubSeq(s, Len(s) - Len(suffix) + 1, Len(s)) = suffix

----------------------------------------------------------------------------
(* state_abbreviations.STATE_ABBREVIATIONS: two-letter code -> state name *)

STATE_ABBREVIATIONS == [c \in {CA, TX} |-> IF c = CA THEN California ELSE Texas]

----------------------------------------------------------------------------
(* Input files *)

SeqsUpTo(S, n) == UNION {[1..k -> S] : k \in 0..n}

Restrict(r, H) == [k \in H |-> r[k]]

RowsOver(S, C, N, H) == {Restrict(r, H) : r \in [state : S, city : C, name : N]}

\* A file is bytes that do not decode as UTF-8, or text the csv reader rejects,
\* or a header line followed by one line per record.
FilesOver(S, C, N, HS, n) ==
    {[kind |-> k, header |-> Columns, rows |-> <<>>] : k \in {"invalid_utf8", "csv_error"}}
    \cup UNION {{[kind |-> "text", header |-> H, rows |-> rs] :
                    rs \in SeqsUpTo(RowsOver(S, C, N, H), n)} : H \in HS}

Files == FilesOver(StateValues, CityValues, NameValues, Headers, MaxRows)
ConcFiles ==
    FilesOver(ConcStateValues, ConcCityValues, ConcNameValues, {Columns}, MaxConcRows)

----------------------------------------------------------------------------
(* Logger *)

Entry(level, msg, arg) == [level |-> level, msg |-> msg, arg |-> arg]

----------------------------------------------------------------------------
(* find_state_abbr *)

\* the lookup without upper()
find_state_abbr_no_upper(state) ==
    IF Len(state) = 2
    THEN IF state \in DOMAIN STATE_ABBREVIATIONS /\ STATE_ABBREVIATIONS[state] # <<>>
         THEN [ok |-> TRUE, value |-> STATE_ABBREVIATIONS[state], logs |-> <<>>]
         ELSE [ok |-> FALSE, value |-> state,
               logs |-> <<Entry("error", "State not recognized.", <<>>)>>]
    ELSE [ok |-> TRUE, value |-> state, logs |-> <<>>]

\* an unknown code passed through instead of raising
find_state_abbr_permissive(state) ==
    IF Len(state) = 2
            /\ upper(state) \in DOMAIN STATE_ABBREVIATIONS
            /\ STATE_ABBREVIATIONS[upper(state)] # <<>>
    THEN [ok |-> TRUE, value |-> STATE_ABBREVIATIONS[upper(state)], logs |-> <<>>]
    ELSE [ok |-> TRUE, value |-> state, logs |-> <<>>]

find_state_abbr(state) ==
    IF Len(state) = 2
    THEN IF upper(state) \in DOMAIN STATE_ABBREVIATIONS
            /\ STATE_ABBREVIATIONS[upper(state)] # <<>>
         THEN [ok |-> TRUE, value |-> STATE_ABBREVIATIONS[upper(state)], logs |-> <<>>]
         ELSE [ok |-> FALSE, value |-> state,
               logs |-> <<Entry("error", "State not recognized.", <<>>)>>]
    ELSE [ok |-> TRUE, value |-> state, logs |-> <<>>]

----------------------------------------------------------------------------
(* get_location_type: site_name and type_name are strings, <<>> when not passed *)

LocationType_get(types, name) ==
    IF name \in types THEN [found |-> TRUE, value |-> name]
    ELSE [found |-> FALSE, value |-> None]

NotFoundLog(site_name) ==
    <<Entry("error", "Location type for {site_name} not found", site_name)>>

\* type_name taken as the location type without the lookup
get_location_type_unchecked(types, site_name, type_name) ==
    IF site_name # <<>>
    THEN IF endswith(site_name, <<"-", "D", "C">>) /\ "Data Center" \in types
         THEN [value |-> "Data Center", logs |-> <<>>]
         ELSE IF ~endswith(site_name, <<"-", "D", "C">>)
                 /\ endswith(site_name, <<"-", "B", "R">>) /\ "Branch" \in types
         THEN [value |-> "Branch", logs |-> <<>>]
         ELSE [value |-> None, logs |-> <<>>]
    ELSE [value |-> type_name, logs |-> <<>>]

get_location_type(types, site_name, type_name) ==
    IF site_name # <<>>
    THEN IF endswith(site_name, <<"-", "D", "C">>)
         THEN LET g == LocationType_get(types, "Data Center")
              IN  IF g.found THEN [value |-> g.value, logs |-> <<>>]
                  ELSE [value |-> None, logs |-> NotFoundLog(site_name)]
         ELSE IF endswith(site_name, <<"-", "B", "R">>)
         THEN LET g == LocationType_get(types, "Branch")
              IN  IF g.found THEN [value |-> g.value, logs |-> <<>>]
                  ELSE [value |-> None, logs |-> NotFoundLog(site_name)]
         ELSE [value |-> None, logs |-> <<>>]
    ELSE IF type_name # ""
    THEN LET g == LocationType_get(types, type_name)
         IN  IF g.found THEN [value |-> g.value, logs |-> <<>>]
             ELSE [value |-> None, logs |-> NotFoundLog(<<>>)]
    ELSE [value |-> None, logs |-> <<Entry("error", "Location type not passed.", <<>>)>>]

----------------------------------------------------------------------------
(* parse_csv: decode, splitlines, csv.DictReader *)

parse_csv(file) ==
    IF file.kind = "invalid_utf8"
    THEN [ok |-> FALSE, locations |-> <<>>,
          err |-> [kind |-> "UnicodeDecodeError", msg |-> "invalid start byte",
                   cause |-> "none"]]
    ELSE IF file.kind = "csv_error"
    THEN [ok |-> FALSE, locations |-> <<>>,
          err |-> [kind |-> "ValidationError",
                   msg |-> "Error occurred while parsing CSV file", cause |-> "csv.Error"]]
    ELSE [ok |-> TRUE, locations |-> file.rows, err |-> NoErr]

----------------------------------------------------------------------------
(* Location.objects.get_or_create(name=..., defaults=...) *)

Matches(st, name) == {k \in DOMAIN st : st[k].name = name}

get_or_create(st, name, defaults) ==
    IF Matches(st, name) # {}
    THEN [store |-> st, obj |-> CHOOSE k \in Matches(st, name) :
                                   \A j \in Matches(st, name) : k <= j,
          created |-> FALSE]
    ELSE [store |-> Append(st, defaults), obj |-> Len(st) + 1, created |-> TRUE]

create(st, defaults) ==
    [store |-> Append(st, defaults), obj |-> Len(st) + 1, created |-> TRUE]

\* Location.objects.create in place of get_or_create
StateCreate(st, state, status, type) ==
    create(st, [name |-> state, status |-> status, location_type |-> type, parent |-> NoPk])

StateGetOrCreate(st, state, status, type) ==
    get_or_create(st, state,
        [name |-> state, status |-> status, location_type |-> type, parent |-> NoPk])

CityCreate(st, name, status, parent, type) ==
    create(st, [name |-> name, status |-> status, location_type |-> type, parent |-> parent])

CityGetOrCreate(st, name, status, parent, type) ==
    get_or_create(st, name,
        [name |-> name, status |-> status, location_type |-> type, parent |-> parent])

SiteGetOrCreate(st, name, status, type, parent) ==
    get_or_create(st, name,
        [name |-> name, status |-> status, location_type |-> type, parent |-> parent])

Call(row, level, key, g) ==
    [row |-> row, level |-> level, key |-> key, obj |-> g.obj, created |-> g.created]

----------------------------------------------------------------------------
(* The order of the statements of the for loop's body *)

\* the City get_or_create moved above the State one
LoopOrderCityFirst == <<"city", "state", "site">>

LoopOrder == <<"state", "city", "site">>

Position(stage) == CHOOSE k \in DOMAIN LoopOrder : LoopOrder[k] = stage

\* Where job p is after completing `stage` of row i[p].
Advance(p, stage) ==
    IF Position(stage) < Len(LoopOrder)
    THEN /\ pc' = [pc EXCEPT ![p] = LoopOrder[Position(stage) + 1]]
         /\ i' = i
    ELSE IF i[p] < Len(locations[p])
    THEN /\ pc' = [pc EXCEPT ![p] = LoopOrder[1]]
         /\ i' = [i EXCEPT ![p] = i[p] + 1]
    ELSE /\ pc' = [pc EXCEPT ![p] = "done"]
         /\ i' = i

\* the exception caught in the loop, the record skipped
RaiseSkip(p, e) ==
    /\ err' = err
    /\ IF i[p] < Len(locations[p])
       THEN /\ pc' = [pc EXCEPT ![p] = "state"]
            /\ i' = [i EXCEPT ![p] = i[p] + 1]
       ELSE /\ pc' = [pc EXCEPT ![p] = "done"]
            /\ i' = i

\* An exception nothing catches ends the job.
Raise(p, e) ==
    /\ pc' = [pc EXCEPT ![p] = "failed"]
    /\ err' = [err EXCEPT ![p] = e]
    /\ i' = i

KeyError(key) == [kind |-> "KeyError", msg |-> key, cause |-> "none"]

InfoIf(cond, msg, arg) == IF cond THEN <<Entry("info", msg, arg)>> ELSE <<>>

----------------------------------------------------------------------------
(* Actions *)

\* run, up to and including parse_csv
run(p) ==
    /\ pc[p] = "run"
    /\ debug' = [debug EXCEPT ![p] = data[p].debug]
    /\ LET r == parse_csv(data[p].csv_file)
       IN  IF r.ok
           THEN /\ locations' = [locations EXCEPT ![p] = r.locations]
                /\ pc' = [pc EXCEPT ![p] = "create_locations"]
                /\ err' = err
                /\ i' = i
           ELSE /\ locations' = locations
                /\ Raise(p, r.err)
    /\ UNCHANGED <<storage, data, runNo, setup, state_object, city, log, calls>>

\* create_locations, the lookups before the loop
create_locations(p) ==
    /\ pc[p] = "create_locations"
    /\ LET st == get_location_type(locationTypes, <<>>, "State")
           ct == get_location_type(locationTypes, <<>>, "City")
       IN  /\ state_location_type' = [state_location_type EXCEPT ![p] = st.value]
           /\ city_location_type' = [city_location_type EXCEPT ![p] = ct.value]
           /\ log' = [log EXCEPT ![p] = log[p] \o st.logs \o ct.logs]
    /\ IF "Active" \in statuses
       THEN /\ active_status_object' = [active_status_object EXCEPT ![p] = "Active"]
            /\ pc' = [pc EXCEPT ![p] =
                        IF Len(locations[p]) = 0 THEN "done" ELSE LoopOrder[1]]
            /\ err' = err
            /\ i' = i
       ELSE /\ active_status_object' = active_status_object
            /\ Raise(p, [kind |-> "Status.DoesNotExist", msg |-> "Active",
                         cause |-> "none"])
    /\ UNCHANGED <<storage, data, runNo, debug, locations, state_object, city, calls>>

\* the loop body, find_state_abbr and the State get_or_create
StateStep(p) ==
    /\ pc[p] = "state"
    /\ LET row == locations[p][i[p]]
       IN  IF "state" \notin DOMAIN row
           THEN /\ Raise(p, KeyError("state"))
                /\ UNCHANGED <<store, state_object, log, calls>>
           ELSE LET r == find_state_abbr(row["state"])
                IN  IF ~r.ok
                    THEN /\ Raise(p, [kind |-> "ValidationError",
                                      msg |-> "State not recognized.",
                                      cause |-> "none"])
                         /\ log' = [log EXCEPT ![p] = log[p] \o r.logs]
                         /\ UNCHANGED <<store, state_object, calls>>
                    ELSE LET g == StateGetOrCreate(store, r.value,
                                      active_status_object[p], state_location_type[p])
                         IN  /\ store' = g.store
                             /\ state_object' = [state_object EXCEPT ![p] = g.obj]
                             /\ calls' = [calls EXCEPT ![p] =
                                    Append(calls[p], Call(i[p], "state", r.value, g))]
                             /\ log' = [log EXCEPT ![p] = log[p] \o
                                    InfoIf(g.created /\ debug[p],
                                        "Created the Following Entry - State: {state}",
                                        r.value)]
                             /\ Advance(p, "state")
                             /\ err' = err
    /\ UNCHANGED <<locationTypes, statuses, data, runNo, debug, locations, setup, city>>

\* the loop body, the City get_or_create
CityStep(p) ==
    /\ pc[p] = "city"
    /\ LET row == locations[p][i[p]]
       IN  IF "city" \notin DOMAIN row
           THEN /\ Raise(p, KeyError("city"))
                /\ UNCHANGED <<store, city, log, calls>>
           ELSE LET g == CityGetOrCreate(store, row["city"], active_status_object[p],
                             state_object[p], city_location_type[p])
                IN  /\ store' = g.store
                    /\ city' = [city EXCEPT ![p] = g.obj]
                    /\ calls' = [calls EXCEPT ![p] =
                           Append(calls[p], Call(i[p], "city", row["city"], g))]
                    /\ log' = [log EXCEPT ![p] = log[p] \o
                           InfoIf(g.created /\ debug[p],
                               "Created the Following Entry - City: {city.name}",
                               g.store[g.obj].name)]
                    /\ Advance(p, "city")
                    /\ err' = err
    /\ UNCHANGED <<locationTypes, statuses, data, runNo, debug, locations, setup,
                   state_object>>

\* the loop body, get_location_type and the Site get_or_create
SiteStep(p) ==
    /\ pc[p] = "site"
    /\ LET row == locations[p][i[p]]
       IN  IF "name" \notin DOMAIN row
           THEN /\ Raise(p, KeyError("name"))
                /\ UNCHANGED <<store, log, calls>>
           ELSE LET t == get_location_type(locationTypes, row["name"], "")
                    g == SiteGetOrCreate(store, row["name"], active_status_object[p],
                             t.value, city[p])
                IN  /\ store' = g.store
                    /\ calls' = [calls EXCEPT ![p] =
                           Append(calls[p], Call(i[p], "site", row["name"], g))]
                    /\ log' = [log EXCEPT ![p] = log[p] \o t.logs \o
                           InfoIf(g.created /\ debug[p],
                               "Created the Following Entry - Site: {site}",
                               g.store[g.obj].name) \o
                           InfoIf(~g.created /\ debug[p], "Location already exists", <<>>)]
                    /\ Advance(p, "site")
                    /\ err' = err
    /\ UNCHANGED <<locationTypes, statuses, data, runNo, debug, locations, setup,
                   state_object, city>>

\* the host invokes the job a second time with the same data
Rerun(p) ==
    /\ pc[p] \in {"done", "failed"}
    /\ runNo[p] = 1
    /\ runNo' = [runNo EXCEPT ![p] = 2]
    /\ pc' = [pc EXCEPT ![p] = "run"]
    /\ debug' = [debug EXCEPT ![p] = FALSE]
    /\ locations' = [locations EXCEPT ![p] = <<>>]
    /\ i' = [i EXCEPT ![p] = 1]
    /\ state_location_type' = [state_location_type EXCEPT ![p] = None]
    /\ city_location_type' = [city_location_type EXCEPT ![p] = None]
    /\ active_status_object' = [active_status_object EXCEPT ![p] = None]
    /\ state_object' = [state_object EXCEPT ![p] = NoPk]
    /\ city' = [city EXCEPT ![p] = NoPk]
    /\ log' = [log EXCEPT ![p] = <<>>]
    /\ calls' = [calls EXCEPT ![p] = <<>>]
    /\ err' = [err EXCEPT ![p] = NoErr]
    /\ UNCHANGED <<storage, data>>

----------------------------------------------------------------------------
(* Specifications *)

InitJobs(P, F, CS) ==
    /\ store = <<>>
    /\ \E c \in CS : locationTypes = c.types /\ statuses = c.statuses
    /\ data \in [P -> [csv_file : F, debug : BOOLEAN]]
    /\ pc = [p \in P |-> "run"]
    /\ runNo = [p \in P |-> 1]
    /\ debug = [p \in P |-> FALSE]
    /\ locations = [p \in P |-> <<>>]
    /\ i = [p \in P |-> 1]
    /\ state_location_type = [p \in P |-> None]
    /\ city_location_type = [p \in P |-> None]
    /\ active_status_object = [p \in P |-> None]
    /\ state_object = [p \in P |-> NoPk]
    /\ city = [p \in P |-> NoPk]
    /\ log = [p \in P |-> <<>>]
    /\ calls = [p \in P |-> <<>>]
    /\ err = [p \in P |-> NoErr]

Jobs == DOMAIN pc

\* one job, invoked and then invoked again with the same data
Init == InitJobs({"job"}, Files, Configs)

Next ==
    \/ \E p \in Jobs : run(p)
    \/ \E p \in Jobs : create_locations(p)
    \/ \E p \in Jobs : StateStep(p)
    \/ \E p \in Jobs : CityStep(p)
    \/ \E p \in Jobs : SiteStep(p)
    \/ \E p \in Jobs : Rerun(p)

Spec == Init /\ [][Next]_vars

\* two jobs running at once against the same storage
InitConc ==
    InitJobs({"job1", "job2"}, ConcFiles, {c \in Configs : c.statuses = AllStatuses})

NextConc ==
    \/ \E p \in Jobs : run(p)
    \/ \E p \in Jobs : create_locations(p)
    \/ \E p \in Jobs : StateStep(p)
    \/ \E p \in Jobs : CityStep(p)
    \/ \E p \in Jobs : SiteStep(p)

SpecConc == InitConc /\ [][NextConc]_vars

----------------------------------------------------------------------------
(* Properties *)

CallsOf(p) == {calls[p][k] : k \in DOMAIN calls[p]}

\* the two-letter codes of STATE_ABBREVIATIONS, in every letter case
CaseVariants(c) ==
    {<<a, b>> : a \in {c[1], LowerCase[CHOOSE k \in 1..26 : UpperCase[k] = c[1]]},
                b \in {c[2], LowerCase[CHOOSE k \in 1..26 : UpperCase[k] = c[2]]}}

RecognizedCodes == CaseVariants(CA) \cup CaseVariants(TX)

Unrecognized(s) == Len(s) = 2 /\ s \notin RecognizedCodes

StorageComplete == locationTypes = AllLocationTypes /\ statuses = AllStatuses

\* the job got as far as create_locations
Parsed(p) == pc[p] \notin {"run", "create_locations"} /\ data[p].csv_file.kind = "text"

\* C1: every Site node's parent is a City node, every City node's parent is a
\* State node and no State node has a parent, whatever the records are (with the
\* location types and the status the job looks up all in storage).
C1_HierarchyInvariant ==
    StorageComplete =>
        \A k \in DOMAIN store :
            LET n == store[k]
            IN  IF n.location_type = "State" THEN n.parent = NoPk
                ELSE /\ n.parent \in DOMAIN store
                     /\ store[n.parent].location_type =
                            (IF n.location_type = "City" THEN "State" ELSE "City")

\* C5: a file that is not valid UTF-8 delimited text makes run fail with a
\* ValidationError that carries the underlying error as its cause, before
\* create_locations is entered and so with no Location fetched or created.
C5_MalformedInputIsValidationError ==
    \A p \in Jobs :
        (pc[p] # "run" /\ data[p].csv_file.kind # "text") =>
            /\ pc[p] = "failed"
            /\ err[p].kind = "ValidationError"
            /\ err[p].cause # "none"
            /\ calls[p] = <<>>

\* C6: a created Site node has type "Data Center" when its name ends with "-DC"
\* and "Branch" when it ends with "-BR"; with any other name, or with the matched
\* type absent from storage, it has no type and the job logged an error or a
\* warning about that site name.
C6_SiteClassification ==
    \A p \in Jobs : \A e \in CallsOf(p) :
        (e.level = "site" /\ e.created) =>
            LET n == store[e.obj]
                dc == endswith(e.key, <<"-", "D", "C">>)
                br == endswith(e.key, <<"-", "B", "R">>)
            IN  IF dc /\ "Data Center" \in locationTypes
                THEN n.location_type = "Data Center"
                ELSE IF ~dc /\ br /\ "Branch" \in locationTypes
                THEN n.location_type = "Branch"
                ELSE /\ n.location_type = None
                     /\ \E k \in DOMAIN log[p] :
                            /\ log[p][k].level \in {"error", "warning"}
                            /\ log[p][k].arg = e.key

\* C2: running the job a second time on the same data leaves the Location table
\* as the first run left it, and every get_or_create of the second run returns
\* created = False.
C2_Idempotence ==
    /\ [](\A p \in Jobs : runNo[p] = 2 => \A e \in CallsOf(p) : ~e.created)
    /\ [][(\E p \in Jobs : runNo'[p] = 2) => store' = store]_vars

C2_Witness ==
    \E p \in Jobs :
        /\ runNo[p] = 2
        /\ pc[p] = "done"
        /\ Len(calls[p]) >= 6
        /\ Len(store) >= 3

\* C3 as stated: a run over a file with a record whose state is an unrecognized
\* two-letter code ends with ValidationError and has created no node, wherever
\* the record is (storage complete, all three columns present).
C3_NoNodesCreated ==
    \A p \in Jobs :
        (/\ pc[p] \in {"done", "failed"}
         /\ StorageComplete
         /\ data[p].csv_file.kind = "text"
         /\ data[p].csv_file.header = Columns
         /\ \E k \in DOMAIN locations[p] : Unrecognized(locations[p][k]["state"]))
        => /\ pc[p] = "failed"
           /\ err[p].kind = "ValidationError"
           /\ \A e \in CallsOf(p) : ~e.created

StateNotRecognized(p) ==
    /\ pc[p] = "failed"
    /\ err[p].kind = "ValidationError"
    /\ err[p].msg = "State not recognized."

\* C3 amended: when the loop reaches a record whose state is an unrecognized
\* two-letter code, the job ends there with ValidationError "State not
\* recognized."; no get_or_create is issued for that record or a later one, so
\* the run has created no node when the record is the first one, and otherwise
\* only the nodes of the records before it.
C3_UnrecognizedStateAborts ==
    \A p \in Jobs :
        /\ \A k \in DOMAIN locations[p] :
              ("state" \in DOMAIN locations[p][k]
                  /\ Unrecognized(locations[p][k]["state"])) =>
                 /\ i[p] <= k
                 /\ i[p] = k => pc[p] \in {"create_locations", "state", "failed"}
                 /\ \A e \in CallsOf(p) : e.row < k
                 /\ (i[p] = k /\ pc[p] = "failed" /\ "Active" \in statuses) =>
                        /\ StateNotRecognized(p)
                        /\ \E n \in DOMAIN log[p] :
                               /\ log[p][n].level = "error"
                               /\ log[p][n].msg = "State not recognized."
        /\ StateNotRecognized(p) =>
              /\ Unrecognized(locations[p][i[p]]["state"])
              /\ i[p] = 1 => calls[p] = <<>>

C3_Witness ==
    \E p \in Jobs :
        /\ StateNotRecognized(p)
        /\ i[p] = 2
        /\ \E e \in CallsOf(p) : e.created /\ e.row = 1 /\ e.obj \in DOMAIN store

C7_NoDuplicateNodes ==
    /\ \A j, k \in DOMAIN store : store[j].name = store[k].name => j = k
    /\ \A p, q \in Jobs : \A m \in DOMAIN calls[p] : \A n \in DOMAIN calls[q] :
          LET e == calls[p][m]
              f == calls[q][n]
          IN  /\ e.obj \in DOMAIN store
              /\ store[e.obj].name = e.key
              /\ e.key = f.key => e.obj = f.obj
              /\ (e.key = f.key /\ e.created /\ f.created) => (p = q /\ m = n)

C7_Witness ==
    /\ pc["job1"] \in {"state", "city", "site"}
    /\ pc["job2"] \in {"state", "city", "site"}
    /\ \E e \in CallsOf("job1") : \E f \in CallsOf("job2") :
          /\ e.key = f.key
          /\ e.obj = f.obj
          /\ e.level = f.level
          /\ e.created
          /\ ~f.created

\* for each state name of the mapping, the state fields that stand for it
StatesNamed ==
    [c \in DOMAIN STATE_ABBREVIATIONS |-> CaseVariants(c) \cup {STATE_ABBREVIATIONS[c]}]

\* C8: a state field that is a code of the mapping, in any letter case, and one
\* that is the mapping's name for that code get-or-create the same State node,
\* named by the full name; a state field whose length is not 2 is the name as is.
C8_StateCodeEquivalence ==
    \A p \in Jobs :
        /\ \A e \in CallsOf(p) :
              e.level = "state" =>
                 LET s == locations[p][e.row]["state"]
                 IN  /\ s \in StatesNamed[CA] => e.key = California
                     /\ s \in StatesNamed[TX] => e.key = Texas
                     /\ Len(s) # 2 => e.key = s
                     /\ store[e.obj].name = e.key
        /\ \A e, f \in CallsOf(p) :
              (/\ e.level = "state"
               /\ f.level = "state"
               /\ \E c \in DOMAIN StatesNamed :
                     /\ locations[p][e.row]["state"] \in StatesNamed[c]
                     /\ locations[p][f.row]["state"] \in StatesNamed[c])
              => e.obj = f.obj
        /\ StateNotRecognized(p) => locations[p][i[p]]["state"] \notin RecognizedCodes

C8_Witness ==
    \E p \in Jobs : \E e, f \in CallsOf(p) :
        /\ e.level = "state" /\ e.row = 1 /\ locations[p][1]["state"] = ca
        /\ f.level = "state" /\ f.row = 2 /\ locations[p][2]["state"] = California
        /\ e.created
        /\ ~f.created
        /\ e.obj = f.obj
        /\ store[e.obj].name = California

\* C9: the get_or_create calls of a job come in the order State, City, Site of
\* record 1, then of record 2, and so on; a City node is created with the State
\* node of its record, already in the table, as parent, and a Site node with the
\* City node of its record.
C9_HierarchyOrdering ==
    \A p \in Jobs : \A k \in DOMAIN calls[p] :
        LET e == calls[p][k]
        IN  /\ e.row = ((k - 1) \div 3) + 1
            /\ e.level = <<"state", "city", "site">>[((k - 1) % 3) + 1]
            /\ e.row <= i[p]
            /\ (e.created /\ e.level \in {"city", "site"}) =>
                  /\ store[e.obj].parent = calls[p][k - 1].obj
                  /\ store[e.obj].parent \in 1..(e.obj - 1)

C9_Witness ==
    \E p \in Jobs :
        /\ pc[p] = "done"
        /\ Len(calls[p]) = 6
        /\ \A k \in {2, 3, 5, 6} : calls[p][k].created

RowOk(r) == DOMAIN r = Columns /\ ~Unrecognized(r["state"])

StepsBefore(e) ==
    IF e.kind = "ValidationError" THEN 0
    ELSE IF e.msg = "state" THEN 0
    ELSE IF e.msg = "city" THEN 1
    ELSE 2

FailedInRecord(p) ==
    /\ pc[p] = "failed"
    /\ err[p].kind = "KeyError" \/ StateNotRecognized(p)

\* C10: when a record fails (unrecognized state code, missing column) the job
\* ends at once: the calls issued are those of the records before it and of the
\* failing record's earlier steps, none follows, and the nodes in the table stay
\* as they were created.
C10_AbortWithoutRollback ==
    /\ [](\A p \in Jobs :
            /\ FailedInRecord(p) =>
                  /\ Len(calls[p]) = 3 * (i[p] - 1) + StepsBefore(err[p])
                  /\ \A e \in CallsOf(p) :
                        e.obj \in DOMAIN store /\ store[e.obj].name = e.key
            /\ \A e \in CallsOf(p) : \A j \in 1..e.row :
                  IF j < e.row THEN RowOk(locations[p][j])
                  ELSE /\ "state" \in DOMAIN locations[p][j]
                       /\ ~Unrecognized(locations[p][j]["state"]))
    /\ [][\A p \in Jobs :
            (pc[p] = "failed" /\ runNo'[p] = runNo[p]) =>
                (pc'[p] = "failed" /\ calls'[p] = calls[p])]_vars
    /\ [][\A k \in DOMAIN store : k \in DOMAIN store' /\ store'[k] = store[k]]_vars

C10_Witness ==
    \E p \in Jobs :
        /\ FailedInRecord(p)
        /\ i[p] = 2
        /\ Len(calls[p]) >= 3
        /\ \E e \in CallsOf(p) : e.created /\ e.row = 1 /\ store[e.obj].name = e.key

====
